---------------------------- MODULE Spec2Model ----------------------------
(***************************************************************************)
(* A model of dandi/delete.py: the Deleter registration engine and the     *)
(* delete() driver (registration loop, confirmation gate, execution in     *)
(* debug and tabular mode).                                                *)
(*                                                                         *)
(* Strings the code manipulates (API URLs, asset paths) are sequences of   *)
(* one-character strings, so that rstrip, endswith, prefix matching and    *)
(* path ordering are computed, not assumed.                                *)
(***************************************************************************)
EXTENDS Naturals, Sequences, FiniteSets

VARIABLES
    client,             \* Deleter.client: [present, api_url]
    dandiset,           \* Deleter.dandiset: identifier of the bound RemoteDandiset, or None
    deleting_dandiset,  \* Deleter.deleting_dandiset
    skip_missing,       \* Deleter.skip_missing
    remote_assets,      \* Deleter.remote_assets: sequence of assets
    force,              \* delete(force=...)
    devel_debug,        \* delete(devel_debug=...)
    pc,                 \* position of delete(): register, delete_dandiset, debug, pyout, done, raised
    nreg,               \* number of elements of `paths` consumed so far
    raised,             \* the exception that left delete(), NoError if none
    todo,               \* assets not yet started, in enumeration order
    running,            \* assets whose status generator has yielded "Deleting"
    jobs,               \* size of the tabular worker pool
    hung,               \* running assets whose delete() call never returns
    trace,              \* collaborator calls and status records, in order
    last,               \* the latest registration: its input and the Deleter before it
    reached,            \* identifiers of the assets handed to add_asset so far
    allMissing,         \* every input consumed so far named a target absent remotely
    named,              \* the (server, Dandiset identifier) pairs the inputs named so far
    vpc,                \* position of validate(): idle, loop, returned, exit1
    file_errors,        \* what validating each file finds: path -> list of errors
    nfiles,             \* validate: nfiles
    all_files_errors,   \* validate: all_files_errors, a dict path -> list of errors
    yielded             \* the (path, errors) pairs the validator has yielded, in order

vars == <<client, dandiset, deleting_dandiset, skip_missing, remote_assets,
          force, devel_debug, pc, nreg, raised, todo, running, jobs, hung, trace,
          last, reached, allMissing, named,
          vpc, file_errors, nfiles, all_files_errors, yielded>>

deleterVars == <<client, dandiset, deleting_dandiset, skip_missing, remote_assets>>

execVars == <<todo, running, jobs, hung, trace>>

validateVars == <<vpc, file_errors, nfiles, all_files_errors, yielded>>

deleteVars == <<deleterVars, execVars, force, devel_debug, pc, nreg, raised,
                last, reached, allMissing, named>>

-----------------------------------------------------------------------------
(* Bounds *)

\* Length of the `paths` argument of delete().
MaxPaths == 3

\* Largest worker pool (jobs) explored in tabular mode.
MaxJobs == 2

\* Number of (path, errors) pairs the validator yields at most.
MaxFiles == 3

-----------------------------------------------------------------------------
(* Values *)

None == "None"

DRAFT == "draft"

NoPath == << >>

\* "a", "a/", "a//" and "b"
ApiA == <<"a">>

ApiASlash == <<"a", "/">>

ApiASlashSlash == <<"a", "/", "/">>

ApiB == <<"b">>

ApiUrls == {ApiA, ApiASlash, ApiASlashSlash, ApiB}

DandisetIds == {"d0", "d1", "d2"}

\* "s/f", "s/g", "t", "u", and the folders "s/" and "x/"
PathSF == <<"s", "/", "f">>

PathSG == <<"s", "/", "g">>

PathT == <<"t">>

PathU == <<"u">>

FolderS == <<"s", "/">>

FolderX == <<"x", "/">>

Asset(i, p) == [identifier |-> i, path |-> p]

-----------------------------------------------------------------------------
(* The remote archive the collaborators answer from *)

\* Pairs (server, dandiset id) that exist remotely; d0 exists nowhere.
ExistingDandisets == {<<ApiA, "d1">>, <<ApiA, "d2">>, <<ApiB, "d1">>}

\* The draft assets of each remote Dandiset, in listing order.
DandisetAssets(server, id) ==
    IF <<server, id>> = <<ApiA, "d1">>
    THEN <<Asset("a1", PathSF), Asset("a2", PathSG), Asset("a3", PathT)>>
    ELSE IF <<server, id>> = <<ApiA, "d2">>
    THEN <<Asset("a4", PathT)>>
    ELSE IF <<server, id>> = <<ApiB, "d1">>
    THEN <<Asset("a5", PathSF)>>
    ELSE << >>

-----------------------------------------------------------------------------
(* String helpers *)

\* str.rstrip("/"): drops every trailing "/".
RECURSIVE rstrip(_)
rstrip(s) ==
    IF s # << >> /\ s[Len(s)] = "/" THEN rstrip(SubSeq(s, 1, Len(s) - 1)) ELSE s

\* str.endswith("/")
endswith_slash(s) == s # << >> /\ s[Len(s)] = "/"

\* str.startswith(prefix)
startswith(s, prefix) ==
    Len(prefix) <= Len(s) /\ SubSeq(s, 1, Len(prefix)) = prefix

\* Code point order of the characters used in paths.
Ord(c) ==
    CASE c = "/" -> 47
      [] c = "f" -> 102
      [] c = "g" -> 103
      [] c = "s" -> 115
      [] c = "t" -> 116
      [] c = "u" -> 117
      [] c = "x" -> 120
      [] OTHER -> 0

\* Python's str "<" : lexicographic by code point, a proper prefix is smaller.
RECURSIVE StrLess(_, _)
StrLess(s, t) ==
    IF t = << >> THEN FALSE
    ELSE IF s = << >> THEN TRUE
    ELSE IF Ord(Head(s)) # Ord(Head(t)) THEN Ord(Head(s)) < Ord(Head(t))
    ELSE StrLess(Tail(s), Tail(t))

\* Insert asset a into the path-sorted sequence xs after every element that
\* is not greater (keeps sorted() stable).
RECURSIVE InsertByPath(_, _)
InsertByPath(a, xs) ==
    IF xs = << >> THEN <<a>>
    ELSE IF StrLess(a.path, Head(xs).path) THEN <<a>> \o xs
    ELSE <<Head(xs)>> \o InsertByPath(a, Tail(xs))

\* sorted(assets, key=attrgetter("path"))
RECURSIVE SortedByPath(_)
\* The assets in the order of their registration.
SortedByPath_registration_order(xs) == xs

SortedByPath(xs) ==
    IF xs = << >> THEN << >>
    ELSE InsertByPath(xs[Len(xs)], SortedByPath(SubSeq(xs, 1, Len(xs) - 1)))

-----------------------------------------------------------------------------
(* Inputs of delete(): the elements of `paths` *)

\* One shape for every input.  form "dandiset_url" and "assets_url" are the
\* two variants parse_dandi_url returns for a URL; form "local" is a local
\* file path, with dandiset_id the identifier of the enclosing local
\* Dandiset (None when there is none) and path its path relative to it.
Input(form, api_url, id, version_id, scope, path, is_dir) ==
    [form |-> form, api_url |-> api_url, dandiset_id |-> id,
     version_id |-> version_id, scope |-> scope, path |-> path,
     is_dir |-> is_dir]

NoInput == Input(None, << >>, None, None, None, NoPath, FALSE)

DandisetUrls ==
    {Input("dandiset_url", a, i, v, None, NoPath, FALSE) :
        a \in ApiUrls, i \in DandisetIds, v \in {None, "0.1"}}

AssetsUrls ==
    {Input("assets_url", a, i, v, sp[1], sp[2], FALSE) :
        a \in ApiUrls, i \in DandisetIds, v \in {None, DRAFT},
        sp \in {<<"item", PathSF>>, <<"item", PathU>>,
                <<"folder", FolderS>>, <<"folder", FolderX>>}}

Urls == DandisetUrls \cup AssetsUrls

LocalPaths ==
    {Input("local", << >>, None, None, None, PathT, FALSE)}
    \cup {Input("local", << >>, i, None, None, pd[1], pd[2]) :
            i \in DandisetIds,
            pd \in {<<PathSF, FALSE>>, <<PathT, FALSE>>, <<PathU, FALSE>>,
                    <<<<"s">>, TRUE>>, <<<<"x">>, TRUE>>}}

\* get_instance(dandi_instance).api: the API URL of the instance local paths
\* are resolved against.
InstanceApi == ApiA

-----------------------------------------------------------------------------
(* Exceptions *)

\* An exception: its type and what its message interpolates.
Error(type, text, path, url, id) ==
    [type |-> type, text |-> text, path |-> path, url |-> url,
     dandiset_id |-> id]

NoError == Error(None, "", NoPath, NoInput, None)

\* What a RemoteAsset.delete() or RemoteDandiset.delete() call can raise.
DeleteExceptions ==
    {Error("HTTPError", "500", NoPath, NoInput, None),
     Error("ConnectionError", "reset", NoPath, NoInput, None)}

DeleteOutcomes == {NoError} \cup DeleteExceptions

-----------------------------------------------------------------------------
(* Collaborators: DandiAPIClient, RemoteDandiset, ParsedDandiURL *)

\* DandiAPIClient.get_dandiset(dandiset_id, DRAFT, lazy=False) succeeds.
DandisetExists(server, id) == <<server, id>> \in ExistingDandisets

\* RemoteDandiset.get_assets_with_path_prefix(prefix)
get_assets_with_path_prefix(server, id, prefix) ==
    SelectSeq(DandisetAssets(server, id), LAMBDA a : startswith(a.path, prefix))

\* RemoteDandiset.get_asset_by_path(path): the assets at exactly that path
\* (none: NotFoundError).
get_asset_by_path(server, id, path) ==
    SelectSeq(DandisetAssets(server, id), LAMBDA a : a.path = path)

\* ParsedDandiURL.get_assets(client) of an asset-scope URL.
get_assets(parsed_url, server) ==
    IF parsed_url.scope = "item"
    THEN get_asset_by_path(server, parsed_url.dandiset_id, parsed_url.path)
    ELSE get_assets_with_path_prefix(server, parsed_url.dandiset_id,
                                     parsed_url.path)

-----------------------------------------------------------------------------
(* Deleter *)

NoClient == [present |-> FALSE, api_url |-> << >>]

\* The Deleter as a value: what the methods below take and return.
Deleter(c, d, dd, ra) ==
    [client |-> c, dandiset |-> d, deleting_dandiset |-> dd,
     remote_assets |-> ra]

\* Outcome of a method call: the Deleter after it, the exception it raised
\* (NoError: it returned), its return value, and the identifiers it passed
\* to add_asset.
Outcome(d, err, ret, ids) == [d |-> d, err |-> err, ret |-> ret, ids |-> ids]

\* __bool__ looking at the assets alone.
deleter_bool_assets_only(d) == d.remote_assets # << >>

\* Deleter.__bool__
deleter_bool(d) == d.deleting_dandiset \/ d.remote_assets # << >>

\* is_same_url removing one trailing "/" only.
is_same_url_one_slash(url1, url2) ==
    (IF endswith_slash(url1) THEN SubSeq(url1, 1, Len(url1) - 1) ELSE url1)
        = (IF endswith_slash(url2) THEN SubSeq(url2, 1, Len(url2) - 1) ELSE url2)

is_same_url(url1, url2) == rstrip(url1) = rstrip(url2)

\* set_dandiset binding again whenever it is called: no comparison with the
\* client and Dandiset already bound.
set_dandiset_rebinds(d, skip, api_url, dandiset_id) ==
    LET c == [present |-> TRUE, api_url |-> rstrip(api_url)]
        d1 == [d EXCEPT !.client = c]
    IN  IF DandisetExists(c.api_url, dandiset_id)
        THEN Outcome([d1 EXCEPT !.dandiset = dandiset_id], NoError, TRUE, {})
        ELSE IF skip
        THEN Outcome(d1, NoError, FALSE, {})
        ELSE Outcome(d1, Error("NotFoundError", "client", NoPath, NoInput, None),
                     FALSE, {})

\* Deleter.set_dandiset.  The client is created and kept before the Dandiset
\* is looked up; authentication is taken to succeed.
set_dandiset(d, skip, api_url, dandiset_id) ==
    IF ~d.client.present
    THEN LET c == [present |-> TRUE, api_url |-> rstrip(api_url)]
             d1 == [d EXCEPT !.client = c]
         IN  IF DandisetExists(c.api_url, dandiset_id)
             THEN Outcome([d1 EXCEPT !.dandiset = dandiset_id], NoError, TRUE, {})
             ELSE IF skip
             THEN Outcome(d1, NoError, FALSE, {})
             ELSE Outcome(d1, Error("NotFoundError", "client", NoPath, NoInput, None),
                          FALSE, {})
    ELSE IF ~is_same_url(d.client.api_url, api_url)
    THEN Outcome(d, Error("ValueError",
                          "Cannot delete assets from multiple API instances at once",
                          NoPath, NoInput, None), FALSE, {})
    ELSE IF d.dandiset = None
    \* self.dandiset.identifier with self.dandiset still None
    THEN Outcome(d, Error("AttributeError", "identifier", NoPath, NoInput, None),
                 FALSE, {})
    ELSE IF d.dandiset # dandiset_id
    THEN Outcome(d, Error("ValueError",
                          "Cannot delete assets from multiple Dandisets at once",
                          NoPath, NoInput, None), FALSE, {})
    ELSE Outcome(d, NoError, TRUE, {})

\* add_asset without the scan for an equal identifier.
add_asset_no_scan(d, asset) == [d EXCEPT !.remote_assets = Append(@, asset)]

\* Deleter.add_asset
add_asset(d, asset) ==
    IF ~(\E i \in 1..Len(d.remote_assets) :
            d.remote_assets[i].identifier = asset.identifier)
    THEN [d EXCEPT !.remote_assets = Append(@, asset)]
    ELSE d

\* add_asset over a sequence of assets, in order.
RECURSIVE add_assets(_, _)
add_assets(d, assets) ==
    IF assets = << >> THEN d
    ELSE add_assets(add_asset(d, Head(assets)), Tail(assets))

AssetIds(assets) == {assets[i].identifier : i \in 1..Len(assets)}

\* Deleter.register_dandiset
register_dandiset(d, skip, api_url, dandiset_id) ==
    LET b == set_dandiset(d, skip, api_url, dandiset_id)
    IN  IF b.err # NoError \/ ~b.ret THEN b
        ELSE Outcome([b.d EXCEPT !.deleting_dandiset = TRUE], NoError, TRUE, {})

\* Deleter.register_asset
register_asset(d, skip, api_url, dandiset_id, version_id, asset_path) ==
    LET b == set_dandiset(d, skip, api_url, dandiset_id)
    IN  IF b.err # NoError \/ ~b.ret THEN b
        ELSE LET found == get_asset_by_path(b.d.client.api_url, b.d.dandiset,
                                            asset_path)
             IN  IF found = << >>
                 THEN IF skip THEN Outcome(b.d, NoError, TRUE, {})
                      ELSE Outcome(b.d,
                                   Error("NotFoundError", "Asset at path not found in Dandiset",
                                         asset_path, NoInput, dandiset_id),
                                   FALSE, {})
                 ELSE Outcome(add_asset(b.d, found[1]), NoError, TRUE,
                              {found[1].identifier})

\* register_asset_folder returning when no asset is under the prefix.
register_asset_folder_silent(d, skip, api_url, dandiset_id, version_id, folder_path) ==
    LET b == set_dandiset(d, skip, api_url, dandiset_id)
    IN  IF b.err # NoError \/ ~b.ret THEN b
        ELSE LET found == get_assets_with_path_prefix(b.d.client.api_url,
                                                      b.d.dandiset, folder_path)
             IN  Outcome(add_assets(b.d, found), NoError, TRUE, AssetIds(found))

\* Deleter.register_asset_folder
register_asset_folder(d, skip, api_url, dandiset_id, version_id, folder_path) ==
    LET b == set_dandiset(d, skip, api_url, dandiset_id)
    IN  IF b.err # NoError \/ ~b.ret THEN b
        ELSE LET found == get_assets_with_path_prefix(b.d.client.api_url,
                                                      b.d.dandiset, folder_path)
             IN  IF found = << >> /\ ~skip
                 THEN Outcome(b.d,
                              Error("NotFoundError", "No assets under path found in Dandiset",
                                    folder_path, NoInput, dandiset_id),
                              FALSE, {})
                 ELSE Outcome(add_assets(b.d, found), NoError, TRUE, AssetIds(found))

\* Deleter.register_assets_url
register_assets_url(d, skip, url, parsed_url) ==
    LET b == set_dandiset(d, skip, parsed_url.api_url, parsed_url.dandiset_id)
    IN  IF b.err # NoError \/ ~b.ret THEN b
        ELSE LET found == get_assets(parsed_url, b.d.client.api_url)
             IN  IF found = << >> /\ ~skip
                 THEN Outcome(b.d,
                              Error("NotFoundError", "No assets found for", NoPath, url, None),
                              FALSE, {})
                 ELSE Outcome(add_assets(b.d, found), NoError, TRUE, AssetIds(found))

\* register_url letting skip_missing cover a Dandiset URL with a version.
register_url_skips_version(d, skip, url) ==
    IF url.form = "dandiset_url"
    THEN IF url.version_id # None
         THEN IF skip THEN Outcome(d, NoError, TRUE, {})
              ELSE Outcome(d,
                           Error("NotImplementedError",
                                 "Dandi API server does not support deletion of individual versions of a dandiset",
                                 NoPath, NoInput, None),
                           FALSE, {})
         ELSE register_dandiset(d, skip, url.api_url, url.dandiset_id)
    ELSE LET parsed_url ==
                 IF url.version_id = None THEN [url EXCEPT !.version_id = DRAFT]
                 ELSE url
         IN  register_assets_url(d, skip, url, parsed_url)

\* Deleter.register_url; parse_dandi_url(url) is the input's own fields.
register_url(d, skip, url) ==
    IF url.form = "dandiset_url"
    THEN IF url.version_id # None
         THEN Outcome(d,
                      Error("NotImplementedError",
                            "Dandi API server does not support deletion of individual versions of a dandiset",
                            NoPath, NoInput, None),
                      FALSE, {})
         ELSE register_dandiset(d, skip, url.api_url, url.dandiset_id)
    ELSE LET parsed_url ==
                 IF url.version_id = None THEN [url EXCEPT !.version_id = DRAFT]
                 ELSE url
         IN  register_assets_url(d, skip, url, parsed_url)

\* find_local_asset: (Dandiset identifier, path relative to its root, with
\* a trailing slash for a directory); no enclosing Dandiset: RuntimeError.
find_local_asset(filepath) ==
    IF filepath.dandiset_id = None
    THEN [err |-> Error("RuntimeError", "Found no dandiset.yaml anywhere", NoPath,
                        NoInput, None),
          dandiset_id |-> None, relpath |-> NoPath]
    ELSE [err |-> NoError, dandiset_id |-> filepath.dandiset_id,
          relpath |-> IF filepath.is_dir THEN Append(filepath.path, "/")
                      ELSE filepath.path]

\* Deleter.register_local_path_equivalent
register_local_path_equivalent(d, skip, filepath) ==
    LET api_url == InstanceApi
        loc == find_local_asset(filepath)
    IN  IF loc.err # NoError THEN Outcome(d, loc.err, FALSE, {})
        ELSE LET b == set_dandiset(d, skip, api_url, loc.dandiset_id)
             IN  IF b.err # NoError \/ ~b.ret THEN b
                 ELSE IF endswith_slash(loc.relpath)
                 THEN register_asset_folder(b.d, skip, api_url, loc.dandiset_id,
                                            DRAFT, loc.relpath)
                 ELSE register_asset(b.d, skip, api_url, loc.dandiset_id,
                                     DRAFT, loc.relpath)

-----------------------------------------------------------------------------
(* Trace events *)

Event(ev, id, path, status, message, n, ok) ==
    [ev |-> ev, id |-> id, path |-> path, status |-> status,
     message |-> message, n |-> n, ok |-> ok]

\* click.confirm(msg) and its answer; kind and n are what msg shows.
EvConfirm(kind, n, id, answer) == Event("confirm", id, NoPath, kind, << >>, n, answer)

\* RemoteAsset.delete() on asset a with outcome o: it returned (ok), or it
\* raised the exception whose type and text are kept in status and message.
EvDeleteAsset(a, o) ==
    Event("deleteAsset", a.identifier, a.path, o.type, <<o.text>>, 0, o = NoError)

\* RemoteDandiset.delete()
EvDeleteDataset(id, ok) == Event("deleteDataset", id, NoPath, "", << >>, 0, ok)

\* A status record {"path", "status"[, "message"]}
EvRecord(path, status, message) == Event("record", "", path, status, message, 0, TRUE)

\* The message made of the text of the exception alone.
ErrorMessage_text_only(e) == <<e.text>>

\* f"{type(e).__name__}: {e}"
ErrorMessage(e) == <<e.type, ": ", e.text>>

\* _process_asset yielding "Deleted" whether or not delete() raised.
TerminalRecord_always_deleted(a, o) == EvRecord(a.path, "Deleted", << >>)

\* The records Deleter._process_asset yields for an asset whose delete()
\* ended with outcome o, after "Deleting".
TerminalRecord(a, o) ==
    IF o = NoError THEN EvRecord(a.path, "Deleted", << >>)
    ELSE EvRecord(a.path, "Error", ErrorMessage(o))

-----------------------------------------------------------------------------
(* delete() *)

TheDeleter == Deleter(client, dandiset, deleting_dandiset, remote_assets)

NoCall == [input |-> NoInput, pre |-> Deleter(NoClient, None, FALSE, << >>), ids |-> {}]

\* The (server, Dandiset identifier) pair an input names, if it names one.
Named(inp) ==
    IF inp.form = "local"
    THEN IF inp.dandiset_id = None THEN {} ELSE {<<rstrip(InstanceApi), inp.dandiset_id>>}
    ELSE {<<rstrip(inp.api_url), inp.dandiset_id>>}

\* Whether the target an input names is absent from the archive: its
\* Dandiset does not exist, or no asset matches its path, prefix or URL.
TargetMissing(inp) ==
    CASE inp.form = "dandiset_url" ->
            inp.version_id = None /\ ~DandisetExists(rstrip(inp.api_url), inp.dandiset_id)
      [] inp.form = "assets_url" ->
            get_assets(inp, rstrip(inp.api_url)) = << >>
      [] inp.form = "local" ->
            /\ inp.dandiset_id # None
            /\ IF inp.is_dir
               THEN get_assets_with_path_prefix(InstanceApi, inp.dandiset_id,
                                                Append(inp.path, "/")) = << >>
               ELSE get_asset_by_path(InstanceApi, inp.dandiset_id, inp.path) = << >>
      [] OTHER -> FALSE

\* The validate command is not running.
ValidateIdle ==
    /\ vpc = "idle"
    /\ file_errors = << >>
    /\ nfiles = 0
    /\ all_files_errors = << >>
    /\ yielded = << >>

Init ==
    /\ client = NoClient
    /\ dandiset = None
    /\ deleting_dandiset = FALSE
    /\ skip_missing \in BOOLEAN
    /\ remote_assets = << >>
    /\ force \in BOOLEAN
    /\ devel_debug \in BOOLEAN
    /\ pc = "register"
    /\ nreg = 0
    /\ raised = NoError
    /\ todo = << >>
    /\ running = {}
    /\ jobs = 0
    /\ hung = {}
    /\ trace = << >>
    /\ last = NoCall
    /\ reached = {}
    /\ allMissing = TRUE
    /\ named = {}
    /\ ValidateIdle

\* The loop over `paths` going on after a registration that raised.
Registered_goes_on(inp, r) ==
    /\ client' = r.d.client
    /\ dandiset' = r.d.dandiset
    /\ deleting_dandiset' = r.d.deleting_dandiset
    /\ remote_assets' = r.d.remote_assets
    /\ raised' = r.err
    /\ pc' = "register"
    /\ nreg' = nreg + 1
    /\ last' = [input |-> inp, pre |-> TheDeleter, ids |-> r.ids]
    /\ reached' = reached \cup r.ids
    /\ allMissing' = (allMissing /\ TargetMissing(inp))
    /\ named' = named \cup Named(inp)
    /\ UNCHANGED <<validateVars, skip_missing, force, devel_debug, execVars>>

\* The effect of one iteration of the loop over `paths` whose registration
\* call ended with outcome r.
Registered(inp, r) ==
    /\ client' = r.d.client
    /\ dandiset' = r.d.dandiset
    /\ deleting_dandiset' = r.d.deleting_dandiset
    /\ remote_assets' = r.d.remote_assets
    /\ raised' = r.err
    /\ pc' = IF r.err # NoError THEN "raised" ELSE "register"
    /\ nreg' = nreg + 1
    /\ last' = [input |-> inp, pre |-> TheDeleter, ids |-> r.ids]
    /\ reached' = reached \cup r.ids
    /\ allMissing' = (allMissing /\ TargetMissing(inp))
    /\ named' = named \cup Named(inp)
    /\ UNCHANGED <<validateVars, skip_missing, force, devel_debug, execVars>>

\* for p in paths: is_url(p) -> deleter.register_url(p)
RegisterUrl(url) ==
    /\ pc = "register"
    /\ nreg < MaxPaths
    /\ Registered(url, register_url(TheDeleter, skip_missing, url))

\* for p in paths: not is_url(p) -> deleter.register_local_path_equivalent(...)
RegisterLocalPath(filepath) ==
    /\ pc = "register"
    /\ nreg < MaxPaths
    /\ Registered(filepath,
                  register_local_path_equivalent(TheDeleter, skip_missing, filepath))

\* The prompt counting the inputs consumed instead of the assets registered.
confirm_counts_paths(d, answer) ==
    IF d.deleting_dandiset
    THEN EvConfirm("Delete Dandiset", 0, d.dandiset, answer)
    ELSE EvConfirm("Delete assets on server from Dandiset", nreg, d.dandiset, answer)

\* Deleter.confirm: the prompt shown.
confirm(d, answer) ==
    IF d.deleting_dandiset
    THEN EvConfirm("Delete Dandiset", 0, d.dandiset, answer)
    ELSE EvConfirm("Delete assets on server from Dandiset", Len(d.remote_assets),
                   d.dandiset, answer)

\* `deleter and (force or deleter.confirm())`: whether the prompt is shown,
\* and whether delete() goes on.
Asked(d, f) == deleter_bool(d) /\ ~f

\* The test going on whatever the answer.
Proceed_unasked(d, f, answer) == deleter_bool(d)

Proceed(d, f, answer) == deleter_bool(d) /\ (f \/ answer)

\* The dispatch testing devel_debug before deleting_dandiset.
Dispatch_debug_first(d, debug) ==
    IF debug THEN "debug"
    ELSE IF d.deleting_dandiset THEN "delete_dandiset"
    ELSE "pyout"

\* Where delete() goes once `deleter and (force or deleter.confirm())` holds.
Dispatch(d, debug) ==
    IF d.deleting_dandiset THEN "delete_dandiset"
    ELSE IF debug THEN "debug"
    ELSE "pyout"

\* The end of the loop over `paths` and the test
\* `if deleter and (force or deleter.confirm())`, with the user's answer
\* should the prompt be shown, up to the creation of the worker pool.
Gate(answer, max_workers) ==
    /\ pc = "register"
    /\ LET d == TheDeleter
           asked == Asked(d, force)
           go == Proceed(d, force, answer)
           to == IF go THEN Dispatch(d, devel_debug) ELSE "done"
       IN  /\ trace' = IF asked THEN Append(trace, confirm(d, answer)) ELSE trace
           /\ pc' = to
           /\ todo' = IF to \in {"debug", "pyout"}
                      THEN SortedByPath(d.remote_assets) ELSE << >>
           /\ jobs' = IF to = "pyout" THEN max_workers ELSE 0
    /\ last' = NoCall
    /\ UNCHANGED <<validateVars, hung, deleterVars, force, devel_debug, nreg, raised,
                   running, reached, allMissing, named>>

\* Deleter.delete_dandiset, with the outcome o of RemoteDandiset.delete().
DeleteDandiset(o) ==
    /\ pc = "delete_dandiset"
    /\ IF deleting_dandiset
       THEN /\ trace' = Append(trace, EvDeleteDataset(dandiset, o = NoError))
            /\ raised' = o
            /\ pc' = IF o = NoError THEN "done" ELSE "raised"
       ELSE /\ trace' = trace
            /\ raised' = Error("RuntimeError",
                               "delete_dandiset() called when Dandiset not registered for deletion",
                               NoPath, NoInput, None)
            /\ pc' = "raised"
    /\ UNCHANGED <<validateVars, hung, deleterVars, force, devel_debug, nreg, todo, running, jobs,
                   last, reached, allMissing, named>>

\* The first record of Deleter._process_asset for the next asset.
YieldDeleting ==
    /\ todo # << >>
    /\ trace' = Append(trace, EvRecord(Head(todo).path, "Deleting", << >>))
    /\ running' = running \cup {Head(todo)}
    /\ todo' = Tail(todo)

\* The rest of Deleter._process_asset for asset a: the delete() call, with
\* outcome o, and the record that follows it.
ProcessAsset(a, o) ==
    /\ a \in running
    /\ trace' = trace \o <<EvDeleteAsset(a, o), TerminalRecord(a, o)>>
    /\ running' = running \ {a}

\* Whether the loop over the assets ends once asset a is done.
Finished(a) == todo = << >> /\ running \ {a} = {}

\* process_assets_debug as delete() consumes it: print the "Deleting"
\* record of the next asset.
DebugDeleting ==
    /\ pc = "debug"
    /\ running = {}
    /\ YieldDeleting
    /\ UNCHANGED <<validateVars, hung, deleterVars, force, devel_debug, pc, nreg, raised, jobs,
                   last, reached, allMissing, named>>

\* process_assets_debug leaving its loop at the first delete() that raises.
DebugDelete_stops_on_error(o) ==
    /\ pc = "debug"
    /\ \E a \in running :
        /\ ProcessAsset(a, o)
        /\ pc' = IF Finished(a) \/ o # NoError THEN "done" ELSE "debug"
    /\ UNCHANGED <<validateVars, hung, deleterVars, force, devel_debug, nreg, raised, todo, jobs,
                   last, reached, allMissing, named>>

\* process_assets_debug: delete the asset and print its last record.
DebugDelete(o) ==
    /\ pc = "debug"
    /\ \E a \in running : ProcessAsset(a, o) /\ pc' = IF Finished(a) THEN "done" ELSE "debug"
    /\ UNCHANGED <<validateVars, hung, deleterVars, force, devel_debug, nreg, raised, todo, jobs,
                   last, reached, allMissing, named>>

\* Tabular mode with one row in progress at a time, whatever the pool size.
PyoutDeleting_one_at_a_time ==
    /\ pc = "pyout"
    /\ running = {}
    /\ YieldDeleting
    /\ UNCHANGED <<validateVars, hung, deleterVars, force, devel_debug, pc, nreg, raised, jobs,
                   last, reached, allMissing, named>>

\* Tabular mode: a free worker starts the generator of the next row.
PyoutDeleting ==
    /\ pc = "pyout"
    /\ Cardinality(running) < jobs
    /\ YieldDeleting
    /\ UNCHANGED <<validateVars, hung, deleterVars, force, devel_debug, pc, nreg, raised, jobs,
                   last, reached, allMissing, named>>

\* Tabular mode: a worker's delete() call ends and its row gets its last
\* record; `with out` is left once every row is done.
PyoutDelete(a, o) ==
    /\ pc = "pyout"
    /\ a \notin hung
    /\ ProcessAsset(a, o)
    /\ pc' = IF Finished(a) THEN "done" ELSE "pyout"
    /\ UNCHANGED <<validateVars, hung, deleterVars, force, devel_debug, nreg, raised, todo, jobs,
                   last, reached, allMissing, named>>

Next ==
    \/ \E url \in Urls : RegisterUrl(url)
    \/ \E filepath \in LocalPaths : RegisterLocalPath(filepath)
    \/ \E answer \in BOOLEAN, w \in 1..MaxJobs : Gate(answer, w)
    \/ \E o \in DeleteOutcomes : DeleteDandiset(o)
    \/ DebugDeleting
    \/ \E o \in DeleteOutcomes : DebugDelete(o)
    \/ PyoutDeleting
    \/ \E a \in running, o \in DeleteOutcomes : PyoutDelete(a, o)

Spec == Init /\ [][Next]_vars

\* Tabular mode: the delete() call of asset a never returns; its worker
\* stays in the call, so a stays among the running rows for good.
PyoutHang(a) ==
    /\ pc = "pyout"
    /\ a \in running \ hung
    /\ hung' = hung \cup {a}
    /\ UNCHANGED <<validateVars, deleterVars, force, devel_debug, pc, nreg, raised,
                   todo, running, jobs, trace, last, reached, allMissing, named>>

NextHang ==
    \/ Next
    \/ \E a \in running : PyoutHang(a)

\* The worker pool at work: a free worker takes the next row, and a call
\* in flight either ends (returns or raises) or is one that hangs.
PoolFairness ==
    /\ WF_vars(PyoutDeleting)
    /\ WF_vars(\E a \in running :
                    \/ PyoutHang(a)
                    \/ \E o \in DeleteOutcomes : PyoutDelete(a, o))

SpecHang == Init /\ [][NextHang]_vars /\ PoolFairness

-----------------------------------------------------------------------------
(* Reading the trace *)

EventsOf(kind) == SelectSeq(trace, LAMBDA e : e.ev = kind)

DeleteAssetCalls == EventsOf("deleteAsset")

DeleteDatasetCalls == EventsOf("deleteDataset")

Confirms == EventsOf("confirm")

Records(status) == SelectSeq(trace, LAMBDA e : e.ev = "record" /\ e.status = status)

NoDeleteCalls == DeleteAssetCalls = << >> /\ DeleteDatasetCalls = << >>

\* Number of RemoteAsset.delete() calls made on the asset with identifier id.
CallsOn(id) == Len(SelectSeq(trace, LAMBDA e : e.ev = "deleteAsset" /\ e.id = id))

\* The latest registration call, if the loop over `paths` has not ended.
Called == last.input # NoInput

\* The call named a Dandiset other than the one bound before it, or another
\* server than the client's.
OtherEndpoint(call) ==
    \E sd \in Named(call.input) : sd[1] # rstrip(call.pre.client.api_url)

OtherDandiset(call) ==
    \E sd \in Named(call.input) : sd[2] # call.pre.dandiset

VersionedDandisetUrl(inp) == inp.form = "dandiset_url" /\ inp.version_id # None

-----------------------------------------------------------------------------
(* C1 *)

\* C1: Deleter.remote_assets never holds two assets with the same
\* identifier, whatever registrations were made and by whichever route an
\* asset was reached.
C1_NoDuplicateIdentifiers ==
    \A i, j \in 1..Len(remote_assets) :
        remote_assets[i].identifier = remote_assets[j].identifier => i = j

\* A folder registration by URL has just reached again an asset that an
\* earlier registration by local path had put in the list.
C1_Witness ==
    /\ Called
    /\ raised = NoError
    /\ last.input.form = "assets_url"
    /\ last.input.scope = "folder"
    /\ last.ids \cap AssetIds(last.pre.remote_assets) # {}
    /\ Len(last.pre.remote_assets) = 1
    /\ Len(remote_assets) = 2
    /\ nreg = 2

-----------------------------------------------------------------------------
(* C2 *)

\* The call was made with a Dandiset bound and named another Dandiset or
\* another server.
Mixing(call) ==
    /\ call.input # NoInput
    /\ call.pre.dandiset # None
    /\ OtherEndpoint(call) \/ OtherDandiset(call)

\* The exception set_dandiset raises for a call that mixes servers or
\* Dandisets: the server is compared first.
MixingError(call) ==
    IF OtherEndpoint(call)
    THEN Error("ValueError", "Cannot delete assets from multiple API instances at once",
               NoPath, NoInput, None)
    ELSE Error("ValueError", "Cannot delete assets from multiple Dandisets at once",
               NoPath, NoInput, None)

\* C2: once a Dandiset is bound, a registration that names another Dandiset
\* or another server fails with a configuration error - the ValueError of
\* set_dandiset, or NotImplementedError when the input is a Dandiset URL
\* with a version, which register_url rejects before set_dandiset is
\* called - and the client, the Dandiset, deleting_dandiset and
\* remote_assets are what they were before the call.
C2_MixingFailsStateKept ==
    Mixing(last) =>
        /\ pc = "raised"
        /\ IF VersionedDandisetUrl(last.input)
           THEN raised.type = "NotImplementedError"
           ELSE raised = MixingError(last)
        /\ TheDeleter = last.pre

\* A third registration named another Dandiset on the bound server after two
\* assets had been registered, and raised the ValueError.
C2_Witness ==
    /\ Mixing(last)
    /\ ~OtherEndpoint(last)
    /\ raised.type = "ValueError"
    /\ Len(remote_assets) = 2
    /\ nreg = 3

-----------------------------------------------------------------------------
(* C3 *)

\* C3: with skip_missing set, as long as every input consumed named a
\* target that does not exist remotely (a missing Dandiset, or a path,
\* prefix or URL matching no asset), no registration has raised and nothing
\* is accumulated.  Stated for inputs that all name one (server, Dandiset)
\* pair, so that no input mixes Dandisets or servers.
C3_SkipMissingNeverRaises ==
    (skip_missing /\ allMissing /\ Cardinality(named) <= 1) =>
        /\ raised = NoError
        /\ pc # "raised"
        /\ ~deleting_dandiset
        /\ remote_assets = << >>

-----------------------------------------------------------------------------
(* C4 *)

\* The exceptions a registration raises.
RegistrationErrorTypes ==
    {"NotFoundError", "ValueError", "NotImplementedError", "RuntimeError",
     "AttributeError"}

RegistrationRaised == raised.type \in RegistrationErrorTypes

\* C4: no delete call is issued while inputs are still being registered,
\* and once a registration has raised, delete() has ended with that
\* exception and no deleteAsset or deleteDataset call was ever issued.
C4_NoDeleteBeforeAllRegistered ==
    /\ pc = "register" => NoDeleteCalls
    /\ RegistrationRaised => pc = "raised" /\ NoDeleteCalls

\* The third registration raised after the first two had registered two
\* assets.
C4_Witness ==
    /\ pc = "raised"
    /\ RegistrationRaised
    /\ nreg = 3
    /\ Len(remote_assets) = 2
    /\ ~skip_missing
    /\ force

-----------------------------------------------------------------------------
(* C5 *)

Declined == \E i \in 1..Len(trace) : trace[i].ev = "confirm" /\ ~trace[i].ok

\* C5: with force unset, once the user has declined the prompt, delete()
\* has returned normally and no deleteAsset or deleteDataset call was
\* issued.
C5_DeclineDeletesNothing ==
    (~force /\ Declined) =>
        /\ pc = "done"
        /\ raised = NoError
        /\ NoDeleteCalls

\* The prompt was declined for a request that holds the whole Dandiset and
\* an asset.
C5_Witness ==
    /\ ~force
    /\ Declined
    /\ deleting_dandiset
    /\ remote_assets # << >>
    /\ pc = "done"

-----------------------------------------------------------------------------
(* C6 *)

FailedCalls == SelectSeq(trace, LAMBDA e : e.ev = "deleteAsset" /\ ~e.ok)

\* The loop over the assets is not under way.
NotExecuting == pc \notin {"debug", "pyout"}

\* C6: when the execution of the N registered assets is over and exactly
\* one delete call raised, delete() has returned normally, every asset had
\* its delete called exactly once, there are N-1 "Deleted" records and one
\* "Error" record, and the "Error" record carries the path of the asset
\* whose delete raised.
C6_OneFailureIsolated ==
    (NotExecuting /\ Len(FailedCalls) = 1) =>
        /\ pc = "done"
        /\ raised = NoError
        /\ \A i \in 1..Len(remote_assets) : CallsOn(remote_assets[i].identifier) = 1
        /\ Len(DeleteAssetCalls) = Len(remote_assets)
        /\ Len(Records("Deleted")) = Len(remote_assets) - 1
        /\ Len(Records("Error")) = 1
        /\ Records("Error")[1].path = FailedCalls[1].path

\* Three assets were executed in tabular mode and the delete of the middle
\* one in path order ("s/g") raised.
C6_Witness ==
    /\ pc = "done"
    /\ ~devel_debug
    /\ Len(remote_assets) = 3
    /\ Len(FailedCalls) = 1
    /\ FailedCalls[1].path = PathSG
    /\ Len(Records("Deleted")) = 2
    /\ \E i \in 1..Len(trace) :
          trace[i].ev = "record" /\ trace[i].status = "Error" /\ trace[i].path = PathSG

-----------------------------------------------------------------------------
(* C7 *)

Accepted == \E i \in 1..Len(trace) : trace[i].ev = "confirm" /\ trace[i].ok

\* C7: a registration of the whole Dandiset that returned with the Dandiset
\* bound has set deleting_dandiset and no later registration resets it;
\* with deleting_dandiset set no deleteAsset call is ever issued and the
\* per-asset loop is never entered; a forced or confirmed run that has ended
\* issued exactly one deleteDataset call, and ended with the exception of
\* that call if it raised.
C7_DandisetModeOneCall ==
    /\ (Called /\ last.input.form = "dandiset_url" /\ raised = NoError
            /\ dandiset # None) => deleting_dandiset
    /\ last.pre.deleting_dandiset => deleting_dandiset
    /\ deleting_dandiset => DeleteAssetCalls = << >> /\ NotExecuting
    /\ Len(DeleteDatasetCalls) <= 1
    /\ (deleting_dandiset /\ pc \in {"done", "raised"} /\ ~RegistrationRaised
            /\ (force \/ Accepted)) => Len(DeleteDatasetCalls) = 1
    /\ \A i \in 1..Len(trace) :
          trace[i].ev = "deleteDataset" =>
              IF trace[i].ok THEN pc = "done" /\ raised = NoError
              ELSE pc = "raised" /\ raised \in DeleteExceptions

\* The whole Dandiset and two assets were registered, the user confirmed
\* in debug mode, and the one deleteDataset call raised.
C7_Witness ==
    /\ deleting_dandiset
    /\ Len(remote_assets) = 2
    /\ nreg = 3
    /\ ~force
    /\ devel_debug
    /\ Accepted
    /\ Len(DeleteDatasetCalls) = 1
    /\ pc = "raised"

-----------------------------------------------------------------------------
(* C8 *)

\* C8: with force unset, every deleteAsset or deleteDataset call comes
\* after a prompt that was answered yes; the count shown by the asset-mode
\* prompt is the number of distinct asset identifiers registered; and a run
\* that ended after that prompt was accepted issued that many deleteAsset
\* calls.
C8_ConfirmedBeforeDelete ==
    ~force =>
        /\ \A i \in 1..Len(trace) :
              trace[i].ev \in {"deleteAsset", "deleteDataset"} =>
                  \E j \in 1..(i - 1) : trace[j].ev = "confirm" /\ trace[j].ok
        /\ \A j \in 1..Len(trace) :
              (trace[j].ev = "confirm" /\ ~deleting_dandiset) =>
                  trace[j].n = Cardinality(reached)
        /\ (pc = "done" /\ Accepted /\ ~deleting_dandiset) =>
              Len(DeleteAssetCalls) = Cardinality(reached)

\* Three registrations, none skipped, reached two distinct assets; the
\* prompt showed 2, was accepted, and two deleteAsset calls were issued.
C8_Witness ==
    /\ ~force
    /\ ~skip_missing
    /\ nreg = 3
    /\ Cardinality(reached) = 2
    /\ pc = "done"
    /\ Accepted
    /\ Confirms[1].n = 2
    /\ Len(DeleteAssetCalls) = 2

-----------------------------------------------------------------------------
(* C9 *)

\* C9: register_url on a Dandiset URL with a version raises
\* NotImplementedError, whatever skip_missing is and whether or not the
\* Dandiset exists, and leaves the client, the Dandiset, deleting_dandiset
\* and remote_assets as they were.
C9_VersionedDandisetRejected ==
    (Called /\ VersionedDandisetUrl(last.input)) =>
        /\ pc = "raised"
        /\ raised.type = "NotImplementedError"
        /\ TheDeleter = last.pre

\* With skip_missing set and an asset registered, a URL of a version of a
\* Dandiset that does not exist was rejected.
C9_Witness ==
    /\ Called
    /\ VersionedDandisetUrl(last.input)
    /\ skip_missing
    /\ ~DandisetExists(rstrip(last.input.api_url), last.input.dandiset_id)
    /\ last.pre.remote_assets # << >>
    /\ raised.type = "NotImplementedError"

-----------------------------------------------------------------------------
(* C10 *)

\* set_dandiset let the call through: it returned True.
LookupReached(call) ==
    LET api_url == IF call.input.form = "local" THEN InstanceApi
                   ELSE call.input.api_url
        b == set_dandiset(call.pre, skip_missing, api_url, call.input.dandiset_id)
    IN  b.err = NoError /\ b.ret

\* A registration by path, by prefix (both from a local path) or by URL,
\* with skip_missing unset, of a target that matches no asset of its
\* Dandiset.
MissingAssetCall(call) ==
    /\ call.input.form \in {"local", "assets_url"}
    /\ call.input.dandiset_id # None
    /\ ~skip_missing
    /\ LookupReached(call)
    /\ TargetMissing(call.input)

\* The message of the exception names the target of the call.
NamesTarget(err, inp) ==
    IF inp.form = "assets_url" THEN err.url = inp
    ELSE err.path = find_local_asset(inp).relpath

NothingAdded(call) ==
    /\ remote_assets = call.pre.remote_assets
    /\ deleting_dandiset = call.pre.deleting_dandiset

\* C10 as claimed: the registration raises NotFoundError, the message names
\* the missing target and the Dandiset identifier in each of the three
\* cases, and nothing is added.
C10_NotFoundNamesTargetAndDandiset ==
    MissingAssetCall(last) =>
        /\ pc = "raised"
        /\ raised.type = "NotFoundError"
        /\ NamesTarget(raised, last.input)
        /\ raised.dandiset_id = last.input.dandiset_id
        /\ NothingAdded(last)

\* C10 as amended: the registration raises NotFoundError and nothing is
\* added; by path and by prefix the message names the path and the Dandiset
\* identifier; by URL the message names the URL and nothing else.
C10_NotFoundNamesTarget ==
    MissingAssetCall(last) =>
        /\ pc = "raised"
        /\ raised.type = "NotFoundError"
        /\ NamesTarget(raised, last.input)
        /\ raised.dandiset_id =
              IF last.input.form = "assets_url" THEN None
              ELSE last.input.dandiset_id
        /\ NothingAdded(last)

\* After two assets were registered, a local directory with no asset under
\* it was registered and NotFoundError named "x/" and the Dandiset.
C10_Witness ==
    /\ MissingAssetCall(last)
    /\ last.input.form = "local"
    /\ last.input.is_dir
    /\ raised.type = "NotFoundError"
    /\ raised.path = FolderX
    /\ raised.dandiset_id = "d1"
    /\ Len(remote_assets) = 2

-----------------------------------------------------------------------------
(* The validate command (dandi/cli/cmd_validate.py) *)

ValidatePaths == {"p1", "p2", "p3"}

\* The lists of errors validating one file can give.
ErrorLists == {<< >>, <<"e1">>, <<"e1", "e2">>}

\* delete() is not running.
DeleteIdle ==
    /\ client = NoClient
    /\ dandiset = None
    /\ deleting_dandiset = FALSE
    /\ skip_missing = FALSE
    /\ remote_assets = << >>
    /\ force = FALSE
    /\ devel_debug = FALSE
    /\ pc = "idle"
    /\ nreg = 0
    /\ raised = NoError
    /\ todo = << >>
    /\ running = {}
    /\ jobs = 0
    /\ hung = {}
    /\ trace = << >>
    /\ last = NoCall
    /\ reached = {}
    /\ allMissing = TRUE
    /\ named = {}

\* validate() entered: all_files_errors = {}, nfiles = 0.  What each file
\* holds decides what validating it finds.
InitValidate ==
    /\ DeleteIdle
    /\ vpc = "loop"
    /\ file_errors \in [ValidatePaths -> ErrorLists]
    /\ nfiles = 0
    /\ all_files_errors = << >>
    /\ yielded = << >>

\* all_files_errors[path] = errors
DictSet(d, path, errors) ==
    [q \in DOMAIN d \cup {path} |-> IF q = path THEN errors ELSE d[q]]

\* [f for f, errors in all_files_errors.items() if errors], every file.
files_with_errors_unfiltered(d) == DOMAIN d

\* [f for f, errors in all_files_errors.items() if errors]
files_with_errors(d) == {f \in DOMAIN d : d[f] # << >>}

\* One iteration of `for path, errors in validate_(*paths, ...)`.
ValidateFile(path) ==
    /\ vpc = "loop"
    /\ nfiles < MaxFiles
    /\ LET errors == file_errors[path]
       IN  /\ nfiles' = nfiles + 1
           /\ all_files_errors' = DictSet(all_files_errors, path, errors)
           /\ yielded' = Append(yielded, [path |-> path, errors |-> errors])
           /\ vpc' = "loop"
    /\ UNCHANGED <<deleteVars, file_errors>>

\* The end of the loop: the summary and the exit status.
ValidateSummary ==
    /\ vpc = "loop"
    /\ vpc' = IF files_with_errors(all_files_errors) # {} THEN "exit1" ELSE "returned"
    /\ UNCHANGED <<deleteVars, file_errors, nfiles, all_files_errors, yielded>>

NextValidate ==
    \/ \E path \in ValidatePaths : ValidateFile(path)
    \/ ValidateSummary

SpecValidate == InitValidate /\ [][NextValidate]_vars

ValidateEnded == vpc \in {"returned", "exit1"}

\* C11: validate ends with SystemExit(1) exactly when one of the files the
\* validator yielded has a non-empty list of errors, and returns normally
\* otherwise; nfiles, the count the summary shows, is the number of files
\* the validator yielded.
C11_ExitIffErrors ==
    /\ nfiles = Len(yielded)
    /\ ValidateEnded =>
          (vpc = "exit1" <=> \E i \in 1..Len(yielded) : yielded[i].errors # << >>)

\* Three files were yielded, one path twice, one of them without errors,
\* and validate exited with status 1.
C11_Witness ==
    /\ vpc = "exit1"
    /\ nfiles = 3
    /\ yielded[1].path = yielded[3].path
    /\ yielded[1].errors # << >>
    /\ yielded[2].errors = << >>

-----------------------------------------------------------------------------
(* C12 *)

\* The latest call came after registrations that all returned without
\* binding a Dandiset (each named a Dandiset that was not found, under
\* skip_missing), and itself names a Dandiset that exists.
BindAfterSkipped ==
    /\ Called
    /\ skip_missing
    /\ nreg >= 2
    /\ last.pre.dandiset = None
    /\ ~VersionedDandisetUrl(last.input)
    /\ \E sd \in Named(last.input) : DandisetExists(sd[1], sd[2])

\* C12: a registration that names an existing Dandiset after earlier ones
\* were skipped for a missing Dandiset does not raise and binds the client
\* and the Dandiset it names.
C12_BindAfterSkippedSucceeds ==
    BindAfterSkipped =>
        /\ raised = NoError
        /\ pc = "register"
        /\ \E sd \in Named(last.input) :
              client.api_url = sd[1] /\ dandiset = sd[2]

-----------------------------------------------------------------------------
(* C13 *)

\* C13: once a Dandiset is bound, no step - a registration that returns or
\* raises, the confirmation, the execution - changes the client or the
\* Dandiset.
C13_BindingImmutable ==
    [][dandiset # None => (client' = client /\ dandiset' = dandiset)]_vars

\* Bound by the first registration, then a second registration, the prompt
\* and the deletion of two assets have taken place.
C13_Witness ==
    /\ dandiset = "d1"
    /\ client.api_url = ApiA
    /\ nreg = 3
    /\ pc = "done"
    /\ Len(DeleteAssetCalls) = 2

-----------------------------------------------------------------------------
(* C14 *)

\* s without its last character if that is "/": at most one slash removed.
strip_one(s) == IF endswith_slash(s) THEN SubSeq(s, 1, Len(s) - 1) ELSE s

\* A URL registration made with a client already created: set_dandiset
\* compares the client's URL with the URL of the input.
EndpointCompared ==
    /\ Called
    /\ last.pre.client.present
    /\ last.input.form \in {"dandiset_url", "assets_url"}
    /\ ~VersionedDandisetUrl(last.input)

RaisedOtherInstance ==
    /\ raised.type = "ValueError"
    /\ raised.text = "Cannot delete assets from multiple API instances at once"

\* C14 as claimed: the two URLs are taken for the same endpoint iff they
\* are equal after at most one trailing "/" is removed from each.
C14_SameIffEqualAfterOneSlash ==
    EndpointCompared =>
        (~RaisedOtherInstance <=>
            strip_one(last.pre.client.api_url) = strip_one(last.input.api_url))

\* C14 as amended: the two URLs are taken for the same endpoint iff they
\* are equal after every trailing "/" is removed from each.
C14_SameIffEqualAfterAllSlashes ==
    EndpointCompared =>
        (~RaisedOtherInstance <=>
            rstrip(last.pre.client.api_url) = rstrip(last.input.api_url))

\* Bound to "a", a registration at "a//" was accepted and added an asset.
C14_Witness ==
    /\ EndpointCompared
    /\ last.pre.client.api_url = ApiA
    /\ last.pre.dandiset = "d1"
    /\ last.input.api_url = ApiASlashSlash
    /\ raised = NoError
    /\ last.ids # {}

-----------------------------------------------------------------------------
(* C15 *)

\* The paths of a sequence of assets or of events.
PathsOf(xs) == [i \in 1..Len(xs) |-> xs[i].path]

\* ps[i] <= ps[j] for i < j, as Python compares str.
NonDecreasing(ps) ==
    \A i, j \in 1..Len(ps) : i < j => ~StrLess(ps[j], ps[i])

\* delete() is past the gate and iterates over the assets.
Executing == pc \in {"debug", "pyout"}

ExecutedAssets == pc = "done" /\ DeleteAssetCalls # << >>

AllRecords == EventsOf("record")

\* The order in which the assets are taken from the sorted list: those
\* whose generator was started, then those still to start.
Enumeration == PathsOf(Records("Deleting")) \o PathsOf(todo)

\* The records of one path are next to one another.
RecordsGrouped ==
    \A i, k \in 1..Len(AllRecords) :
        (i < k /\ AllRecords[i].path = AllRecords[k].path)
            => \A j \in i..k : AllRecords[j].path = AllRecords[i].path

\* C15: whatever the order of registration, the assets are enumerated in
\* non-decreasing order of path and each registered asset is enumerated;
\* in debug mode the delete calls are made in that order and the records
\* of one asset all come before the records of the next.
C15_PathOrder ==
    (Executing \/ ExecutedAssets) =>
        /\ NonDecreasing(Enumeration)
        /\ Len(Enumeration) = Len(remote_assets)
        /\ \A i \in 1..Len(remote_assets) :
                \E j \in 1..Len(Enumeration) : Enumeration[j] = remote_assets[i].path
        /\ devel_debug =>
            /\ NonDecreasing(PathsOf(DeleteAssetCalls))
            /\ RecordsGrouped

\* Debug mode, "t" registered before "s/f" and "s/g", all three deleted.
C15_Witness ==
    /\ devel_debug
    /\ ExecutedAssets
    /\ PathsOf(remote_assets) = <<PathT, PathSF, PathSG>>
    /\ PathsOf(DeleteAssetCalls) = <<PathSF, PathSG, PathT>>

-----------------------------------------------------------------------------
(* C16 *)

\* What the trace holds about path p: its records and its delete calls.
EventsAt(p) ==
    SelectSeq(trace, LAMBDA e : e.ev \in {"record", "deleteAsset"} /\ e.path = p)

\* "Deleting", the delete call, then the one record that ends the asset:
\* "Deleted" if the call returned, "Error" with the type and the text of
\* the exception if it raised.
WellFormedRow(es) ==
    /\ Len(es) \in {1, 3}
    /\ es[1].ev = "record" /\ es[1].status = "Deleting"
    /\ Len(es) = 3 =>
        /\ es[2].ev = "deleteAsset"
        /\ es[3].ev = "record"
        /\ IF es[2].ok
           THEN es[3].status = "Deleted" /\ es[3].message = << >>
           ELSE /\ es[3].status = "Error"
                /\ es[3].message = <<es[2].status, ": ", es[2].message[1]>>

\* C16: in both modes the events of each asset are "Deleting" first, then
\* one delete call, then exactly one of "Deleted" and "Error" with message
\* "<exception type>: <text>", and nothing after; once delete() has
\* returned every registered asset has all three.
C16_StatusStream ==
    (Executing \/ ExecutedAssets) =>
        \A i \in 1..Len(remote_assets) :
            LET es == EventsAt(remote_assets[i].path)
            IN  /\ es # << >> => WellFormedRow(es)
                /\ pc = "done" => Len(es) = 3

\* Tabular mode: one asset ended "Error" with the message of a
\* ConnectionError, another ended "Deleted".
C16_Witness ==
    /\ ~devel_debug
    /\ ExecutedAssets
    /\ Len(Records("Deleted")) >= 1
    /\ \E i \in 1..Len(trace) :
        /\ trace[i].ev = "record"
        /\ trace[i].status = "Error"
        /\ trace[i].message = <<"ConnectionError", ": ", "reset">>

-----------------------------------------------------------------------------
(* C17 *)

\* No path occurs twice in ps.
Distinct(ps) == \A i, j \in 1..Len(ps) : i # j => ps[i] # ps[j]

\* delete() took the tabular branch.
Tabular == ~devel_debug /\ (pc = "pyout" \/ ExecutedAssets)

-----------------------------------------------------------------------------
(* C18 *)

\* The delete calls made on asset a, and the records that ended its path.
CallsTo(a) ==
    SelectSeq(trace, LAMBDA e : e.ev = "deleteAsset" /\ e.id = a.identifier)

TerminalsAt(p) ==
    SelectSeq(trace, LAMBDA e : e.ev = "record" /\ e.path = p
                                  /\ e.status \in {"Deleted", "Error"})

\* The status and message path p ends with, given the outcome of its call.
ExpectedTerminal(call) ==
    IF call.ok THEN [status |-> "Deleted", message |-> << >>]
    ELSE [status |-> "Error",
          message |-> <<call.status, ": ", call.message[1]>>]

\* C18: what delete() has done when it returns is determined by the
\* registered assets and the outcome of each delete call, with no part
\* played by the mode: one delete call per registered asset and none on
\* anything else, and for each path one final record whose status and
\* message follow from the outcome of its call.
C18_ModesAgree ==
    ExecutedAssets =>
        /\ Len(DeleteAssetCalls) = Len(remote_assets)
        /\ \A i \in 1..Len(remote_assets) :
            LET a == remote_assets[i]
            IN  /\ Len(CallsTo(a)) = 1
                /\ Len(TerminalsAt(a.path)) = 1
                /\ LET t == TerminalsAt(a.path)[1]
                   IN  [status |-> t.status, message |-> t.message]
                           = ExpectedTerminal(CallsTo(a)[1])

\* Debug mode: the first of three delete calls raised and the two after it
\* were made all the same.
C18_Witness ==
    /\ devel_debug
    /\ ExecutedAssets
    /\ Len(DeleteAssetCalls) = 3
    /\ ~DeleteAssetCalls[1].ok
    /\ DeleteAssetCalls[2].ok

-----------------------------------------------------------------------------
(* C19 *)

\* Every registered asset other than the hung ones has its final record.
OthersTerminal ==
    \A i \in 1..Len(remote_assets) :
        \/ remote_assets[i] \in hung
        \/ Len(TerminalsAt(remote_assets[i].path)) = 1

\* As many calls hang as the pool has workers.
PoolExhausted == Cardinality(hung) >= jobs

\* C19: in tabular mode, unless as many delete calls hang as there are
\* workers, every registered asset whose call does not hang eventually gets
\* its final record.
C19_HangOccupiesOneSlot ==
    [](pc = "pyout" => <>(PoolExhausted \/ OthersTerminal))

\* Two workers, three rows: the call of one row hangs and the other two
\* rows have their final records.
C19_Witness ==
    /\ pc = "pyout"
    /\ jobs = 2
    /\ Cardinality(hung) = 1
    /\ Len(remote_assets) = 3
    /\ OthersTerminal

-----------------------------------------------------------------------------
(* C20 *)

\* Neither the Dandiset nor any asset is registered for deletion.
EmptyRequest == ~deleting_dandiset /\ remote_assets = << >>

\* Every input was registered and delete() has been through its test of
\* the Deleter.
PastGate ==
    \/ pc \in {"delete_dandiset", "debug", "pyout", "done"}
    \/ pc = "raised" /\ DeleteDatasetCalls # << >>

\* C20: the Deleter counts as non-empty iff the Dandiset is flagged or an
\* asset is registered.  An empty request returns at once with no prompt
\* and no delete call, whatever force; a non-empty one is prompted for
\* once unless forced, and when forced it goes on to its delete calls.
C20_EmptyRequestIsNoOp ==
    PastGate =>
        /\ EmptyRequest =>
            pc = "done" /\ trace = << >> /\ raised = NoError
        /\ (~EmptyRequest /\ ~force) => Len(Confirms) = 1
        /\ (~EmptyRequest /\ force) =>
            /\ Confirms = << >>
            /\ pc = "done" => ~NoDeleteCalls

\* Forced, three inputs that each named an asset the remote does not have,
\* skipped as missing: delete() returned with nothing done.
C20_Witness ==
    /\ pc = "done"
    /\ force
    /\ skip_missing
    /\ nreg = 3
    /\ allMissing
    /\ EmptyRequest
    /\ trace = << >>
    /\ raised = NoError

=============================================================================
